---- MODULE Spec2Model ----
(***************************************************************************)
(* Model of scripts/garmin_sync.py: the Garmin session client (login,      *)
(* fetch_data, get_activities, download_activity), the listing recursion   *)
(* get_activity_id_list, the bounded batch gather_with_concurrency over    *)
(* save_garmin_activity, the job download_new_activities that chains      *)
(* them, and the upload loop upload_activities.  The remote service, the   *)
(* file system and the index rebuild are the environment: every response   *)
(* they can give is a nondeterministic choice.                             *)
(*                                                                         *)
(* A file name is a sequence of tokens; "." is always a token of its own   *)
(* and every other token stands for a run of characters without a dot.     *)
(* An activity id string is the sequence of its decimal digits.            *)
(***************************************************************************)
EXTENDS Integers, Sequences, FiniteSets, TLC

\* ------------------------------------------------------------------ bounds
\* largest number of remote activities in the small configurations
MaxRemote == 3
\* concurrency limits 1..MaxLimit are tried next to the call site's own
MaxLimit == 2
\* number of successive runs of the job over the same archive directory
MaxRuns == 2
\* largest number of files handed to upload_activities
MaxFiles == 3
\* the paging configurations hold 0..MaxPages full pages
MaxPages == 2

\* ------------------------------------------------------- program constants
\* page size of sync type "all": get_activities(start, 100), start + 100
PageSize == 100
\* page size of sync type "recent": get_activities(start, 1)
RecentLimit == 1
\* gather_with_concurrency(10, ...) in download_new_activities
ConcurrencyLimit == 10

FileTypes == {"gpx", "tcx", "fit"}
SyncTypes == {"all", "recent"}
TypeKeys == {"running", "cycling"}

\* ------------------------------------------------------------ pure helpers
Min(a, b) == IF a < b THEN a ELSE b

Digits == <<"0", "1", "2", "3", "4", "5", "6", "7", "8", "9">>

\* str(activityId) of a non-negative integer: its decimal digits
RECURSIVE Str(_)
Str(i) == IF i < 10 THEN <<Digits[i + 1]>>
          ELSE Str(i \div 10) \o <<Digits[(i % 10) + 1]>>

\* f"{activity_id}." + client.file_type  (the directory prefix is left out:
\* the archive is the listing of GPX_FOLDER)
FilePath(id, ft) == id \o <<".", ft>>

\* i.split(".")[0]: everything before the first "."
RECURSIVE Stem(_)
Stem(name) == IF name = <<>> THEN <<>>
              ELSE IF Head(name) = "." THEN <<>>
              ELSE <<Head(name)>> \o Stem(Tail(name))

\* i.startswith(".")
Hidden(name) == name # <<>> /\ Head(name) = "."

\* [i.split(".")[0] for i in os.listdir(GPX_FOLDER) if not i.startswith(".")]
ListLocalIds(dir) == {Stem(f) : f \in {g \in dir : ~Hidden(g)}}

\* the entries a downloaded "fit" bundle can hold: the names inside the zip
\* are the vendor's (Garmin: <id>_ACTIVITY.fit), not the program's
ZipEntryNames(id) == {id \o <<"_ACTIVITY", ".", "fit">>, id \o <<".", "fit">>}

Range(s) == {s[i] : i \in 1..Len(s)}

\* the slice [start, start+limit) the listing endpoint serves
Page(list, start, limit) == SubSeq(list, start + 1, Min(start + limit, Len(list)))

\* get_activities: the type filter applied to a served page
FilterUnset(types) == Len(types) = 0 \/ types[1] = ""

TypeFilter(page, types) ==
    IF FilterUnset(types) THEN page
    ELSE SelectSeq(page, LAMBDA x : x.typeKey \in Range(types))

\* list(map(lambda a: str(a.get("activityId", "")), activities))
IdsOf(activities) == [i \in 1..Len(activities) |-> Str(activities[i].activityId)]

\* ------------------------------------------------------------------- state
VARIABLES
    \* Garmin.__init__ arguments and the limit handed to gather_with_concurrency
    file_type, sync_type, activity_types, limit,
    \* the environment: the activities the listing endpoint serves for the
    \* run's query, and the entries of GPX_FOLDER
    remote, archive,
    \* the client: self.is_login, whether self.req.cookies holds the cookies
    \* of a sign-in, whether self.req.aclose() has run
    is_login, cookies, closed,
    \* download_new_activities: its position, the exception it ended with,
    \* and its locals
    pc, error, start, activity_ids, downloaded_ids,
    \* the batch: each task's position, the semaphore's free permits
    task, sem,
    \* history of the run: its number, the get_activities calls made, the
    \* fetch_data call in progress or last finished, the last login() call,
    \* the ids a download GET was issued for, the index rebuilds invoked,
    \* the archive as the run found it, the ids earlier runs stored
    run, listCalls, fetch, lastLogin, requested, rebuilds, archive0, stored,
    \* the batch as scheduled: the coroutines created per id, the download
    \* GETs issued per id
    scheduled, gets,
    \* how the run before this one ended
    prior,
    \* an upload_activities call: its position, the item the loop is at and
    \* what became of each item
    up

vars == <<file_type, sync_type, activity_types, limit, remote, archive,
          is_login, cookies, closed, pc, error, start, activity_ids,
          downloaded_ids, task, sem, run, listCalls, fetch, lastLogin,
          requested, rebuilds, archive0, stored,
          scheduled, gets, prior, up>>

config == <<file_type, sync_type, activity_types, limit, remote>>

\* ------------------------------------------------------------ Garmin.login
\* what the sign-in exchange can do: the two sign-in requests fail, the
\* response holds no ticket URL, the ticket GET fails in transport, returns
\* 429, returns another error status, or succeeds
LoginEnv == {"ok", "signin_error", "no_ticket", "ticket_error", "ticket_429",
             "ticket_http_error"}

\* what the second try block raises: the ticket GET's transport error,
\* GarminConnectTooManyRequestsError on status 429, raise_for_status()'s
\* error on another error status
TicketBlockRaises(o) ==
    CASE o = "ticket_error" -> "TransportError"
      [] o = "ticket_429" -> "TooManyRequestsError"
      [] o = "ticket_http_error" -> "HTTPStatusError"
      [] OTHER -> "none"

\* the exception login() ends with ("ok": it returns).  Both try blocks
\* end in "except Exception as err: raise GarminConnectConnectionError",
\* which also catches the too-many-requests error raised inside the second
LoginResult(o) ==
    IF o = "signin_error" THEN "ConnectionError"
    ELSE IF o = "no_ticket" THEN "AuthenticationError"
    ELSE IF TicketBlockRaises(o) # "none" THEN "ConnectionError"
    ELSE "ok"

\* self.req.cookies = self.cf_req.cookies runs once the ticket GET returned
LoginSetsCookies(o) == o \in {"ok", "ticket_429", "ticket_http_error"}

\* self.is_login = True is the last statement of the second try block
LoginFlag(o, prev) == IF o = "ok" THEN TRUE ELSE prev

LoginCookies(o, c) == IF LoginSetsCookies(o) THEN TRUE ELSE c

NoLogin == [env |-> "none", result |-> "none"]

NoFetch == [gets |-> 0, logins |-> 0, first |-> "none", relogin |-> "none",
            second |-> "none", result |-> "none"]

\* no run of the job came before
NoPrior == [ended |-> "none", failed |-> {}]

\* upload_activities is not being called
NoUpload == [pc |-> "none", n |-> 0, i |-> 0, res |-> <<>>, error |-> "none"]

\* no coroutine has been created
NoTasks == [id \in {} |-> 0]

\* ------------------------------------------------------------------- Init
RemoteOf(k, other) ==
    [i \in 1..k |-> [activityId |-> i,
                     typeKey |-> IF i \in other THEN "cycling" ELSE "running"]]

\* a listing that returns its last activity once more, as overlapping pages
\* do
OverlapRemote(k) == RemoteOf(k, {}) \o SubSeq(RemoteOf(k, {}), k, k)

SmallRemotes ==
    {RemoteOf(k, c) : k \in 0..MaxRemote, c \in {{}, {1}}}
        \cup {OverlapRemote(MaxRemote - 1)}

SmallArchives ==
    { {},
      {FilePath(Str(1), "gpx"), <<".", "DS_Store">>},
      {FilePath(Str(1), "tcx"), Str(2) \o <<"_ACTIVITY", ".", "fit">>} }

FilterChoices == {<<>>, <<"">>, <<"running">>}

Limits == (1..MaxLimit) \cup {ConcurrencyLimit}

\* the state download_new_activities starts a run in: a fresh client
FreshRun ==
    /\ is_login = FALSE
    /\ cookies = FALSE
    /\ closed = FALSE
    /\ pc = "login"
    /\ error = "none"
    /\ start = 0
    /\ activity_ids = <<>>
    /\ downloaded_ids = {}
    /\ task = [id \in {} |-> "pending"]
    /\ sem = 0
    /\ listCalls = 0
    /\ fetch = NoFetch
    /\ lastLogin = NoLogin
    /\ requested = {}
    /\ rebuilds = 0
    /\ archive0 = archive
    /\ scheduled = NoTasks
    /\ gets = NoTasks

Init ==
    /\ file_type \in FileTypes
    /\ sync_type \in SyncTypes
    /\ activity_types \in FilterChoices
    /\ limit \in Limits
    /\ remote \in SmallRemotes
    /\ archive \in SmallArchives
    /\ run = 1
    /\ stored = {}
    /\ prior = NoPrior
    /\ up = NoUpload
    /\ FreshRun

\* ------------------------------------------------ client.login() and listdir
\* the effect of one call of login() whose exchange goes as o
DoLogin(o) ==
    /\ is_login' = LoginFlag(o, is_login)
    /\ cookies' = LoginCookies(o, cookies)
    /\ lastLogin' = [env |-> o, result |-> LoginResult(o)]

\* client.login(), then the scan of GPX_FOLDER
Login ==
    /\ pc = "login"
    /\ \E o \in LoginEnv :
        /\ DoLogin(o)
        /\ IF LoginResult(o) = "ok"
           THEN /\ pc' = "list"
                /\ downloaded_ids' = ListLocalIds(archive)
                /\ error' = error
           ELSE /\ pc' = "raised"
                /\ error' = LoginResult(o)
                /\ downloaded_ids' = downloaded_ids
    /\ UNCHANGED <<config, archive, closed, start, activity_ids, task, sem,
                   run, listCalls, fetch, requested, rebuilds, archive0,
                   stored,
                   scheduled, gets, prior, up>>

\* ------------------------------------- get_activities and fetch_data
\* what a GET of the listing URL can do: a 2xx JSON body, HTTP 429, another
\* error status, a transport error, a body that is not JSON
GetEnv == {"ok", "429", "http_error", "transport_error", "bad_json"}

\* fetch_data's try block returns response.json()
FetchOk(r) == r = "ok"

\* faulty variant: the retry relogs in and retries again
OnFetchErrorAgain(retrying) == "relogin"

\* the except branch of fetch_data(url, retrying): relogin and retry when
\* the call is the outer one, the connection error when it is the retry
OnFetchError(retrying) == IF retrying THEN "ConnectionError" ELSE "relogin"

\* faulty variant: a failed listing call is taken as the end of the list
OnListingErrorStop == "diff"

\* an exception of get_activities leaves get_activity_id_list and
\* download_new_activities: neither has a handler around the await
OnListingError == "raised"

\* get_activity_id_list calls get_activities(start, limit), which logs in
\* when the client is not logged in and issues fetch_data's first GET
GetActivities ==
    /\ pc = "list"
    /\ listCalls' = listCalls + 1
    /\ \E o \in LoginEnv :
        IF is_login
        THEN /\ fetch' = [NoFetch EXCEPT !.gets = 1]
             /\ pc' = "fetch_get"
             /\ UNCHANGED <<is_login, cookies, lastLogin, error>>
        ELSE /\ DoLogin(o)
             /\ IF LoginResult(o) = "ok"
                THEN /\ fetch' = [NoFetch EXCEPT !.gets = 1]
                     /\ pc' = "fetch_get"
                     /\ error' = error
                ELSE /\ fetch' = NoFetch
                     /\ pc' = OnListingError
                     /\ error' = LoginResult(o)
    /\ UNCHANGED <<config, archive, closed, start, activity_ids,
                   downloaded_ids, task, sem, run, requested, rebuilds,
                   archive0, stored,
                   scheduled, gets, prior, up>>

\* the first GET of fetch_data(url) completes
FetchResponse ==
    /\ pc = "fetch_get"
    /\ \E r \in GetEnv :
        IF FetchOk(r)
        THEN /\ fetch' = [fetch EXCEPT !.first = "ok", !.result = "returned"]
             /\ pc' = "page"
             /\ error' = error
        ELSE /\ fetch' = [fetch EXCEPT
                            !.first = "failed",
                            !.result = IF OnFetchError(FALSE) = "relogin"
                                       THEN "none" ELSE OnFetchError(FALSE)]
             /\ pc' = IF OnFetchError(FALSE) = "relogin"
                      THEN "fetch_relogin" ELSE OnListingError
             /\ error' = IF OnFetchError(FALSE) = "relogin"
                         THEN error ELSE OnFetchError(FALSE)
    /\ UNCHANGED <<config, archive, is_login, cookies, closed, start,
                   activity_ids, downloaded_ids, task, sem, run, listCalls,
                   lastLogin, requested, rebuilds, archive0, stored,
                   scheduled, gets, prior, up>>

\* self.login() in the except branch, then the GET of
\* fetch_data(url, retrying=True) is issued
FetchRelogin ==
    /\ pc = "fetch_relogin"
    /\ \E o \in LoginEnv :
        /\ DoLogin(o)
        /\ IF LoginResult(o) = "ok"
           THEN /\ fetch' = [fetch EXCEPT !.logins = @ + 1, !.relogin = "ok",
                                          !.gets = @ + 1]
                /\ pc' = "fetch_retry"
                /\ error' = error
           ELSE /\ fetch' = [fetch EXCEPT !.logins = @ + 1,
                                          !.relogin = LoginResult(o),
                                          !.result = LoginResult(o)]
                /\ pc' = OnListingError
                /\ error' = LoginResult(o)
    /\ UNCHANGED <<config, archive, closed, start, activity_ids,
                   downloaded_ids, task, sem, run, listCalls, requested,
                   rebuilds, archive0, stored,
                   scheduled, gets, prior, up>>

\* the GET of fetch_data(url, retrying=True) completes
FetchRetryResponse ==
    /\ pc = "fetch_retry"
    /\ \E r \in GetEnv :
        IF FetchOk(r)
        THEN /\ fetch' = [fetch EXCEPT !.second = "ok", !.result = "returned"]
             /\ pc' = "page"
             /\ error' = error
        ELSE /\ fetch' = [fetch EXCEPT
                            !.second = "failed",
                            !.result = IF OnFetchError(TRUE) = "relogin"
                                       THEN "none" ELSE OnFetchError(TRUE)]
             /\ pc' = IF OnFetchError(TRUE) = "relogin"
                      THEN "fetch_relogin" ELSE OnListingError
             /\ error' = IF OnFetchError(TRUE) = "relogin"
                         THEN error ELSE OnFetchError(TRUE)
    /\ UNCHANGED <<config, archive, is_login, cookies, closed, start,
                   activity_ids, downloaded_ids, task, sem, run, listCalls,
                   lastLogin, requested, rebuilds, archive0, stored,
                   scheduled, gets, prior, up>>

\* ------------------------------------------------- get_activity_id_list
ListLimit(st) == IF st = "all" THEN PageSize ELSE RecentLimit

\* if len(activities) > 0
NonEmpty(activities) == Len(activities) > 0

\* sync type "all" pages on after a non-empty page; "recent" never does
ContinuePaging(st, activities) == st = "all" /\ NonEmpty(activities)

\* faulty variant: the next page starts one short of the page size
NextStartOverlap(s) == s + PageSize - 1

\* get_activity_id_list(client, start + 100)
NextStart(s) == s + PageSize

\* fetch_data returned the page: get_activities filters it, and
\* get_activity_id_list takes its ids and pages on or returns
ProcessPage ==
    /\ pc = "page"
    /\ LET activities == TypeFilter(Page(remote, start, ListLimit(sync_type)),
                                    activity_types)
       IN /\ activity_ids' = activity_ids \o IdsOf(activities)
          /\ IF ContinuePaging(sync_type, activities)
             THEN /\ start' = NextStart(start)
                  /\ pc' = "list"
             ELSE /\ start' = start
                  /\ pc' = "diff"
    /\ UNCHANGED <<config, archive, is_login, cookies, closed, error,
                   downloaded_ids, task, sem, run, listCalls, fetch,
                   lastLogin, requested, rebuilds, archive0, stored,
                   scheduled, gets, prior, up>>

\* ------------------------------------------------ the new-work set, the batch
\* faulty variant: nothing is subtracted
NewWorkAll(ids, local) == Range(ids)

\* list(set(activity_ids) - set(downloaded_ids))
NewWork(ids, local) == Range(ids) \ local

\* faulty variant: acquire() that never waits
CanAcquireAlways(s) == TRUE

\* asyncio.Semaphore(n): acquire() takes a permit only while one is free
CanAcquire(s) == s > 0

\* faulty variant: the permit goes back only when the task returned normally
ReleaseOnSuccess(s, how) == IF how = "done" THEN s + 1 ELSE s

\* sem_task leaves "async with semaphore" by return or by exception: the
\* permit goes back either way
Release(s, how) == s + 1

\* faulty variant: no handler: the exception leaves save_garmin_activity
OnTaskExceptionRaise == "raised"

\* save_garmin_activity's bare except: the exception is printed and the
\* coroutine returns; "raised" would be the exception leaving the task
OnTaskException == "failed"

\* faulty variant: the caller resumes when the first task has ended
GatherWakesOnFirst(t) == \E id \in DOMAIN t : t[id] \in {"done", "failed"}

\* asyncio.gather(*aws) resumes its caller when every awaitable has
\* finished, or at once with the first exception one of them raised
Ended(t) == \A id \in DOMAIN t : t[id] \in {"done", "failed"}

Raised(t) == \E id \in DOMAIN t : t[id] = "raised"

GatherWakes(t) == IF Raised(t) THEN TRUE ELSE Ended(t)

\* faulty variant: the rebuild is skipped when a download failed
AfterGatherSkip(t) ==
    IF Raised(t) THEN "raised"
    ELSE IF \E id \in DOMAIN t : t[id] = "failed" THEN "close" ELSE "rebuild"

\* download_new_activities after the await of gather_with_concurrency: the
\* elapsed time is printed and the index rebuild follows, whatever the
\* tasks' outcomes; an exception of the gather would leave the job
AfterGather(t) == IF Raised(t) THEN "raised" ELSE "rebuild"

\* faulty variant: one coroutine per occurrence of a new id in the listing
CoroutinesPerOccurrence(ids, local) ==
    [id \in NewWork(ids, local) |->
        Cardinality({i \in 1..Len(ids) : ids[i] = id})]

\* [save_garmin_activity(client, id) for id in to_generate_garmin_ids]: the
\* list is made from a set, so it holds each new id once; the number of
\* coroutines created per id
Coroutines(ids, local) == [id \in NewWork(ids, local) |-> 1]

\* faulty variant: a failed download GET is issued once more
OnDownloadErrorRetry(n) == IF n < 2 THEN "retry" ELSE "raise"

\* download_activity has no handler around its GET and raise_for_status():
\* the exception leaves it, whatever the number n of GETs issued so far
OnDownloadError(n) == "raise"

InFlight(t) == {id \in DOMAIN t : t[id] \in {"downloading", "opening", "writing"}}

\* the set difference, one coroutine per new id, gather_with_concurrency
\* creates the semaphore and schedules a sem_task per coroutine
Diff ==
    /\ pc = "diff"
    /\ scheduled' = Coroutines(activity_ids, downloaded_ids)
    /\ task' = [id \in DOMAIN scheduled' |-> "pending"]
    /\ gets' = [id \in DOMAIN scheduled' |-> 0]
    /\ sem' = limit
    /\ pc' = "gather"
    /\ UNCHANGED <<config, archive, is_login, cookies, closed, error, start,
                   activity_ids, downloaded_ids, run, listCalls, fetch,
                   lastLogin, requested, rebuilds, archive0, stored,
                   prior, up>>

\* a task leaves sem_task with outcome st
TaskExit(id, st) ==
    /\ task' = [task EXCEPT ![id] = st]
    /\ sem' = Release(sem, st)

\* sem_task enters the semaphore and its coroutine runs to the GET of
\* download_activity
Acquire(id) ==
    /\ pc = "gather"
    /\ task[id] = "pending"
    /\ CanAcquire(sem)
    /\ sem' = sem - 1
    /\ task' = [task EXCEPT ![id] = "downloading"]
    /\ requested' = requested \cup {id}
    /\ gets' = [gets EXCEPT ![id] = @ + 1]
    /\ UNCHANGED <<config, archive, is_login, cookies, closed, pc, error,
                   start, activity_ids, downloaded_ids, run, listCalls, fetch,
                   lastLogin, rebuilds, archive0, stored,
                   scheduled, prior, up>>

\* the download GET fails in transport or raise_for_status() raises
DownloadFails(id) ==
    /\ pc = "gather"
    /\ task[id] = "downloading"
    /\ \E r \in {"transport_error", "http_error"} :
        IF OnDownloadError(gets[id]) = "raise"
        THEN /\ TaskExit(id, OnTaskException)
             /\ gets' = gets
        ELSE /\ gets' = [gets EXCEPT ![id] = @ + 1]
             /\ UNCHANGED <<task, sem>>
    /\ UNCHANGED <<config, archive, is_login, cookies, closed, pc, error,
                   start, activity_ids, downloaded_ids, run, listCalls, fetch,
                   lastLogin, requested, rebuilds, archive0, stored,
                   scheduled, prior, up>>

\* file type "fit": the payload is unzipped into GPX_FOLDER.  The zip is
\* unreadable, or extraction fails after writing none or one of its
\* entries, or it writes its entry
DownloadFit(id) ==
    /\ pc = "gather"
    /\ task[id] = "downloading"
    /\ file_type = "fit"
    /\ \E z \in {"ok", "bad_zip", "extract_error"} :
        \E name \in ZipEntryNames(id) :
            \E wrote \in BOOLEAN :
                /\ archive' = IF z = "ok" \/ (z = "extract_error" /\ wrote)
                              THEN archive \cup {name} ELSE archive
                /\ TaskExit(id, IF z = "ok" THEN "done" ELSE OnTaskException)
    /\ UNCHANGED <<config, is_login, cookies, closed, pc, error, start,
                   activity_ids, downloaded_ids, run, listCalls, fetch,
                   lastLogin, requested, rebuilds, archive0, stored,
                   scheduled, gets, prior, up>>

\* file types "gpx" and "tcx": the payload arrived, aiofiles.open is awaited
DownloadFile(id) ==
    /\ pc = "gather"
    /\ task[id] = "downloading"
    /\ file_type # "fit"
    /\ task' = [task EXCEPT ![id] = "opening"]
    /\ UNCHANGED <<config, archive, is_login, cookies, closed, pc, error,
                   start, activity_ids, downloaded_ids, sem, run, listCalls,
                   fetch, lastLogin, requested, rebuilds, archive0, stored,
                   scheduled, gets, prior, up>>

\* aiofiles.open(file_path, "wb") returns: the file exists, empty, or the
\* open failed
OpenReturn(id) ==
    /\ pc = "gather"
    /\ task[id] = "opening"
    /\ \E r \in {"ok", "error"} :
        IF r = "ok"
        THEN /\ archive' = archive \cup {FilePath(id, file_type)}
             /\ task' = [task EXCEPT ![id] = "writing"]
             /\ sem' = sem
        ELSE /\ archive' = archive
             /\ TaskExit(id, OnTaskException)
    /\ UNCHANGED <<config, is_login, cookies, closed, pc, error, start,
                   activity_ids, downloaded_ids, run, listCalls, fetch,
                   lastLogin, requested, rebuilds, archive0, stored,
                   scheduled, gets, prior, up>>

\* fb.write(file_data) returns or raises, and the handle is closed
WriteReturn(id) ==
    /\ pc = "gather"
    /\ task[id] = "writing"
    /\ \E r \in {"ok", "error"} :
        TaskExit(id, IF r = "ok" THEN "done" ELSE OnTaskException)
    /\ UNCHANGED <<config, archive, is_login, cookies, closed, pc, error,
                   start, activity_ids, downloaded_ids, run, listCalls, fetch,
                   lastLogin, requested, rebuilds, archive0, stored,
                   scheduled, gets, prior, up>>

\* gather_with_concurrency returns to download_new_activities
GatherReturn ==
    /\ pc = "gather"
    /\ GatherWakes(task)
    /\ pc' = AfterGather(task)
    /\ error' = IF Raised(task) THEN "TaskError" ELSE error
    /\ UNCHANGED <<config, archive, is_login, cookies, closed, start,
                   activity_ids, downloaded_ids, task, sem, run, listCalls,
                   fetch, lastLogin, requested, rebuilds, archive0, stored,
                   scheduled, gets, prior, up>>

\* --------------------------------------------- index rebuild, close, rerun
\* make_activities_file_only(SQL_FILE, GPX_FOLDER, JSON_FILE) returns or
\* raises
Rebuild ==
    /\ pc = "rebuild"
    /\ rebuilds' = rebuilds + 1
    /\ \E r \in {"ok", "error"} :
        /\ pc' = IF r = "ok" THEN "close" ELSE "raised"
        /\ error' = IF r = "ok" THEN error ELSE "RebuildError"
    /\ UNCHANGED <<config, archive, is_login, cookies, closed, start,
                   activity_ids, downloaded_ids, task, sem, run, listCalls,
                   fetch, lastLogin, requested, archive0, stored,
                   scheduled, gets, prior, up>>

\* await client.req.aclose()
Close ==
    /\ pc = "close"
    /\ closed' = TRUE
    /\ pc' = "done"
    /\ UNCHANGED <<config, archive, is_login, cookies, error, start,
                   activity_ids, downloaded_ids, task, sem, run, listCalls,
                   fetch, lastLogin, requested, rebuilds, archive0, stored,
                   scheduled, gets, prior, up>>

RunEnded == pc \in {"done", "raised"}

\* the job is run again over the archive the last run left
NextRun ==
    /\ RunEnded
    /\ run < MaxRuns
    /\ run' = run + 1
    /\ stored' = stored \cup {id \in DOMAIN task : task[id] = "done"}
    /\ is_login' = FALSE
    /\ cookies' = FALSE
    /\ closed' = FALSE
    /\ pc' = "login"
    /\ error' = "none"
    /\ start' = 0
    /\ activity_ids' = <<>>
    /\ downloaded_ids' = {}
    /\ task' = [id \in {} |-> "pending"]
    /\ sem' = 0
    /\ listCalls' = 0
    /\ fetch' = NoFetch
    /\ lastLogin' = NoLogin
    /\ requested' = {}
    /\ rebuilds' = 0
    /\ archive0' = archive
    /\ scheduled' = NoTasks
    /\ gets' = NoTasks
    /\ prior' = [ended |-> pc, failed |-> {id \in DOMAIN task : task[id] = "failed"}]
    /\ UNCHANGED <<config, archive, up>>

\* ------------------------------------------------------ upload_activities
\* what the upload POST of an item can do: fail in transport, return a body
\* without a readable "detailedImportResult", return a result with no
\* successes, return a result with a success
PostEnv == {"transport_error", "bad_body", "no_success", "success"}

\* what the type-correction PUT can do: succeed, fail in transport, return
\* an error status (raise_for_status())
PutEnv == {"ok", "transport_error", "http_error"}

\* faulty variant: the exception of the POST leaves the call
OnPostErrorRaise == "raise"

\* except Exception around the POST: print, "just pass for now", continue
OnPostError == "continue"

\* faulty variant: a failed type correction is skipped like a failed POST
OnPutErrorContinue == "continue"

\* the PUT and r.raise_for_status() have no handler
OnPutError == "raise"

\* the for loop takes the next item and issues its POST, or is over
NextItem(u) ==
    IF u.i < u.n THEN [u EXCEPT !.i = @ + 1, !.pc = "post"]
    ELSE [u EXCEPT !.pc = "close"]

\* item i of the call ended with outcome r, and the loop goes on or the
\* call raises
ItemEnds(u, r, how) ==
    IF how = "continue" THEN NextItem([u EXCEPT !.res[u.i] = r])
    ELSE [u EXCEPT !.res[u.i] = r, !.pc = "raised", !.error = "UploadError"]

\* upload_activities(files) logs in when the client is not logged in and
\* enters the loop
UploadStart ==
    /\ up.pc = "start"
    /\ \E o \in LoginEnv :
        IF is_login
        THEN /\ up' = NextItem(up)
             /\ UNCHANGED <<is_login, cookies, lastLogin>>
        ELSE /\ DoLogin(o)
             /\ up' = IF LoginResult(o) = "ok" THEN NextItem(up)
                      ELSE [up EXCEPT !.pc = "raised",
                                      !.error = LoginResult(o)]
    /\ UNCHANGED <<config, archive, closed, pc, error, start, activity_ids,
                   downloaded_ids, task, sem, run, listCalls, fetch,
                   requested, rebuilds, archive0, stored, scheduled, gets,
                   prior>>

\* the POST of the item returns or raises, res.json() is read, and with a
\* success in the result the PUT of the type correction is issued
PostReturn ==
    /\ up.pc = "post"
    /\ \E r \in PostEnv :
        up' = CASE r = "transport_error" ->
                        ItemEnds(up, "post_failed", OnPostError)
                [] r = "bad_body" -> ItemEnds(up, "bad_body", "raise")
                [] r = "no_success" -> ItemEnds(up, "no_success", "continue")
                [] r = "success" -> [up EXCEPT !.pc = "put"]
    /\ UNCHANGED <<config, archive, is_login, cookies, closed, pc, error,
                   start, activity_ids, downloaded_ids, task, sem, run,
                   listCalls, fetch, lastLogin, requested, rebuilds, archive0,
                   stored, scheduled, gets, prior>>

\* the PUT of the type correction returns or raises
PutReturn ==
    /\ up.pc = "put"
    /\ \E r \in PutEnv :
        up' = IF r = "ok" THEN ItemEnds(up, "ok", "continue")
              ELSE ItemEnds(up, "put_failed", OnPutError)
    /\ UNCHANGED <<config, archive, is_login, cookies, closed, pc, error,
                   start, activity_ids, downloaded_ids, task, sem, run,
                   listCalls, fetch, lastLogin, requested, rebuilds, archive0,
                   stored, scheduled, gets, prior>>

\* await self.req.aclose() after the loop
UploadClose ==
    /\ up.pc = "close"
    /\ closed' = TRUE
    /\ up' = [up EXCEPT !.pc = "done"]
    /\ UNCHANGED <<config, archive, is_login, cookies, pc, error, start,
                   activity_ids, downloaded_ids, task, sem, run, listCalls,
                   fetch, lastLogin, requested, rebuilds, archive0, stored,
                   scheduled, gets, prior>>

\* ----------------------------------------------------------- specifications
Batch ==
    \E id \in DOMAIN task :
        \/ Acquire(id)
        \/ DownloadFails(id)
        \/ DownloadFit(id)
        \/ DownloadFile(id)
        \/ OpenReturn(id)
        \/ WriteReturn(id)

Step ==
    \/ Login
    \/ GetActivities
    \/ FetchResponse
    \/ FetchRelogin
    \/ FetchRetryResponse
    \/ ProcessPage
    \/ Diff
    \/ Batch
    \/ GatherReturn
    \/ Rebuild
    \/ Close

Next == Step \/ NextRun

\* one run of the job from every small configuration
Spec == Init /\ [][Step]_vars

\* one run listing everything without a type filter, for every limit
InitFair ==
    /\ file_type \in FileTypes
    /\ sync_type = "all"
    /\ activity_types = <<>>
    /\ limit \in Limits
    /\ remote \in {RemoteOf(k, {}) : k \in 0..MaxRemote}
    /\ archive \in SmallArchives
    /\ run = 1
    /\ stored = {}
    /\ prior = NoPrior
    /\ up = NoUpload
    /\ FreshRun

\* the event loop runs a ready coroutine, and every request, file operation
\* and the index rebuild returns: a step that can be taken is taken
FairSpec == InitFair /\ [][Step]_vars /\ WF_vars(Step)

\* successive runs over the same archive, with the call site's limit and no
\* type filter
InitRuns ==
    /\ file_type \in FileTypes
    /\ sync_type \in SyncTypes
    /\ activity_types = <<>>
    /\ limit = ConcurrencyLimit
    /\ remote \in {RemoteOf(k, {}) : k \in 0..MaxRemote}
    /\ archive \in SmallArchives
    /\ run = 1
    /\ stored = {}
    /\ prior = NoPrior
    /\ up = NoUpload
    /\ FreshRun

RunsSpec == InitRuns /\ [][Next]_vars

\* one run over a remote list of whole pages, or of whole pages and one
\* activity more, all of one type, or the first of another type, or the
\* whole first page of another type; all but the first activity are in the
\* archive already
PagedRemotes ==
    {RemoteOf(k * PageSize + r, c) :
        k \in 0..MaxPages, r \in {0, 1}, c \in {{}, {1}}}
    \cup {RemoteOf(k * PageSize + 1, 1..PageSize) : k \in 1..MaxPages}

ArchiveOf(list, ft) == {FilePath(Str(list[i].activityId), ft) : i \in 2..Len(list)}

InitList ==
    /\ file_type \in {"gpx", "fit"}
    /\ sync_type \in SyncTypes
    /\ activity_types \in FilterChoices
    /\ limit = ConcurrencyLimit
    /\ remote \in PagedRemotes
    /\ archive = ArchiveOf(remote, "gpx")
    /\ run = 1
    /\ stored = {}
    /\ prior = NoPrior
    /\ up = NoUpload
    /\ FreshRun

\* (with the fairness of FairSpec: a listing that can go on does)
ListSpec == InitList /\ [][Step]_vars /\ WF_vars(Step)

UploadStep ==
    \/ UploadStart
    \/ PostReturn
    \/ PutReturn
    \/ UploadClose

\* one call of upload_activities with 0..MaxFiles files, on a client that
\* is fresh or has logged in
InitUpload ==
    /\ file_type = "gpx"
    /\ sync_type = "recent"
    /\ activity_types = <<"running">>
    /\ limit = ConcurrencyLimit
    /\ remote = <<>>
    /\ archive = {}
    /\ is_login \in BOOLEAN
    /\ cookies = is_login
    /\ closed = FALSE
    /\ pc = "none"
    /\ error = "none"
    /\ start = 0
    /\ activity_ids = <<>>
    /\ downloaded_ids = {}
    /\ task = [id \in {} |-> "pending"]
    /\ sem = 0
    /\ run = 1
    /\ listCalls = 0
    /\ fetch = NoFetch
    /\ lastLogin = NoLogin
    /\ requested = {}
    /\ rebuilds = 0
    /\ archive0 = archive
    /\ stored = {}
    /\ scheduled = NoTasks
    /\ gets = NoTasks
    /\ prior = NoPrior
    /\ \E n \in 0..MaxFiles :
        up = [pc |-> "start", n |-> n, i |-> 0,
              res |-> [k \in 1..n |-> "none"], error |-> "none"]

UploadSpec == InitUpload /\ [][UploadStep]_vars

\* ------------------------------------------------------------------ claims
Started(t) == {id \in DOMAIN t : t[id] # "pending"}

Failed(t) == {id \in DOMAIN t : t[id] = "failed"}

Done(t) == {id \in DOMAIN t : t[id] = "done"}

\* the await of gather_with_concurrency is over, by return or by exception
BatchOver ==
    \/ pc \in {"rebuild", "close", "done"}
    \/ pc = "raised" /\ error \in {"TaskError", "RebuildError"}

\* the entry a finished task left for its id
HasEntry(id) ==
    IF file_type = "fit" THEN ZipEntryNames(id) \cap archive # {}
    ELSE FilePath(id, file_type) \in archive

\* C1: at every moment the number of tasks that entered the semaphore and
\* have not left it is at most the limit n given to gather_with_concurrency
\* (and the semaphore's free permits never go below zero).
C1_ConcurrencyCeiling ==
    /\ Cardinality(InFlight(task)) <= limit
    /\ sem >= 0
    /\ pc = "gather" => sem + Cardinality(InFlight(task)) = limit

\* C1 witness: the limit binds: n tasks are in flight while another waits
C1_Witness ==
    /\ pc = "gather"
    /\ Cardinality(InFlight(task)) = limit
    /\ \E id \in DOMAIN task : task[id] = "pending"
    /\ limit > 1

\* C2: whatever subset of the tasks fails (download, unzip, open or write),
\* the batch call does not raise, it ends with every task ended, and every
\* task that did not fail itself has ended normally with its entry written.
C2_FaultIsolation ==
    /\ error # "TaskError"
    /\ \A id \in DOMAIN task : task[id] # "raised"
    /\ BatchOver =>
        \A id \in DOMAIN task :
            /\ task[id] \in {"done", "failed"}
            /\ task[id] = "done" => HasEntry(id)

\* C2 witness: the batch returned with one task failed and two others done
C2_Witness ==
    /\ pc = "rebuild"
    /\ Cardinality(Failed(task)) = 1
    /\ Cardinality(Done(task)) = 2

\* C3: gather_with_concurrency returns only when every task has ended, and,
\* every request and file operation returning, a batch that has started
\* does end: no task waits for a permit forever.
C3_GatherCompletes ==
    /\ [](BatchOver => Ended(task))
    /\ (pc = "gather") ~> BatchOver

\* C3 witness: the batch returned although more tasks than permits were
\* scheduled and one of them failed
C3_Witness ==
    /\ pc = "rebuild"
    /\ Cardinality(DOMAIN task) > limit
    /\ Failed(task) # {}
    /\ Done(task) # {}

Listing == pc \in {"list", "fetch_get", "fetch_relogin", "fetch_retry", "page"}

\* C4: the stages of a run are ordered: a listing call is made only once
\* the login has completed; while the listing is going on, and until the
\* new-work set is computed, no download task has started; and the index
\* rebuild is invoked only when every task of the batch has ended.
C4_StageOrder ==
    /\ pc = "login" => listCalls = 0 /\ fetch.gets = 0
    /\ listCalls > 0 => is_login
    /\ (pc = "login" \/ Listing \/ pc = "diff") =>
            Started(task) = {} /\ requested = {} /\ rebuilds = 0
    /\ requested # {} => ~Listing /\ pc # "login"
    /\ (rebuilds > 0 \/ pc = "rebuild") => Ended(task) /\ InFlight(task) = {}

\* C4 witness: a run that made two listing calls, ran three downloads and
\* has invoked the rebuild
C4_Witness ==
    /\ rebuilds = 1
    /\ listCalls = 2
    /\ Cardinality(DOMAIN task) = 3
    /\ requested = DOMAIN task

\* C5: in a run whose login and listing succeeded the index rebuild is
\* invoked exactly once, after the batch, however many downloads failed
\* (all of them, or none because there was nothing to download); it is
\* never invoked twice.
C5_RebuildOnce ==
    /\ rebuilds <= 1
    /\ rebuilds = 1 => BatchOver /\ Ended(task)
    /\ (RunEnded /\ error \notin {"AuthenticationError", "ConnectionError"})
            => rebuilds = 1
    /\ pc \in {"close", "done"} => rebuilds = 1

\* C5 witness: the run ended with the rebuild invoked although every one of
\* its downloads failed
C5_Witness ==
    /\ pc = "done"
    /\ rebuilds = 1
    /\ Cardinality(DOMAIN task) >= 2
    /\ Failed(task) = DOMAIN task

\* the fetch_data call of a listing ended with an exception
ListingFailed == fetch.result \in {"ConnectionError", "AuthenticationError"}

\* the login of download_new_activities itself failed (no fetch_data call
\* was made, so the failed login is not a relogin)
FirstLoginFailed ==
    lastLogin.result \notin {"none", "ok"} /\ fetch = NoFetch /\ listCalls = 0

\* C6: a failed first login ends the run with no listing call and no
\* download request (with the authentication error when no ticket URL was
\* found); a failed listing call ends the run with no download task
\* started, no archive entry written and no index rebuild.
C6_FatalErrors ==
    /\ FirstLoginFailed =>
        /\ pc = "raised"
        /\ error = lastLogin.result
        /\ lastLogin.env = "no_ticket" => error = "AuthenticationError"
        /\ fetch.gets = 0
        /\ requested = {}
    /\ ListingFailed =>
        /\ pc = "raised"
        /\ error = fetch.result
        /\ DOMAIN task = {}
        /\ requested = {}
        /\ archive = archive0
        /\ rebuilds = 0

\* C6 witness: the second listing call failed after its retry, the first
\* page's new ids in hand
C6_Witness ==
    /\ ListingFailed
    /\ listCalls = 2
    /\ fetch.gets = 2
    /\ NewWork(activity_ids, downloaded_ids) # {}

\* a fetch_data call made by get_activities has ended, by return or by
\* exception
FetchEnded == fetch.result # "none"

\* C7 (as amended): a fetch_data call issues one GET and no login when its
\* first GET succeeds; when the first GET fails it invokes login exactly
\* once, and then, if that login succeeded, retries the GET exactly once
\* and ends with the connection error when the retry fails too, while if
\* the login failed it issues no second GET and ends with the login's
\* error.  No call issues more than two GETs or more than one login.
C7_RetryPolicy ==
    /\ fetch.gets <= 2
    /\ fetch.logins <= 1
    /\ FetchEnded =>
        /\ fetch.first = "ok" =>
            fetch.gets = 1 /\ fetch.logins = 0 /\ fetch.result = "returned"
        /\ fetch.first = "failed" =>
            /\ fetch.logins = 1
            /\ fetch.relogin = "ok" =>
                /\ fetch.gets = 2
                /\ fetch.second = "ok" => fetch.result = "returned"
                /\ fetch.second = "failed" => fetch.result = "ConnectionError"
            /\ fetch.relogin # "ok" =>
                /\ fetch.gets = 1
                /\ fetch.second = "none"
                /\ fetch.result = fetch.relogin
                /\ fetch.result \in {"AuthenticationError", "ConnectionError"}

\* C7 witness: both GETs of a call failed, with one relogin between them
C7_Witness ==
    /\ fetch.first = "failed"
    /\ fetch.relogin = "ok"
    /\ fetch.second = "failed"
    /\ fetch.result = "ConnectionError"

\* C7 as stated: whenever the first GET fails, login is invoked once and
\* the GET is retried once, so that the call ends having issued two GETs.
C7_Original ==
    /\ fetch.gets <= 2
    /\ fetch.logins <= 1
    /\ FetchEnded =>
        /\ fetch.first = "ok" => fetch.gets = 1 /\ fetch.logins = 0
        /\ fetch.first = "failed" =>
            /\ fetch.logins = 1
            /\ fetch.gets = 2
            /\ fetch.second = "failed" => fetch.result = "ConnectionError"

\* the flag before the last login() call of a run of the job: the first
\* login finds it unset, a relogin of fetch_data finds it set
FlagBeforeLastLogin == fetch.logins = 1

\* C8 as stated: login() ends with the authentication error when no ticket
\* URL is found, with the too-many-requests error when the ticket request
\* returns 429, with the connection error on any other failure and with
\* success otherwise; the flag is set on success and keeps its prior value
\* on failure.
C8_LoginOutcomes ==
    /\ lastLogin.env = "no_ticket" => lastLogin.result = "AuthenticationError"
    /\ lastLogin.env = "ticket_429" => lastLogin.result = "TooManyRequestsError"
    /\ lastLogin.env \in {"signin_error", "ticket_error", "ticket_http_error"}
            => lastLogin.result = "ConnectionError"
    /\ lastLogin.env = "ok" => lastLogin.result = "ok" /\ is_login
    /\ lastLogin.result \notin {"none", "ok"} => is_login = FlagBeforeLastLogin

\* the listing of the run has returned
Listed == pc \in {"diff", "gather", "rebuild", "close", "done"}

\* the type filter lets every remote activity through
FilterPassesAll ==
    FilterUnset(activity_types)
        \/ \A i \in 1..Len(remote) : remote[i].typeKey \in Range(activity_types)

WholePages == Len(remote) % PageSize = 0

\* k whole pages listed in k+1 calls, the last at offset k*100, one id per
\* remote activity, in the remote order
PagedThrough ==
    /\ listCalls = (Len(remote) \div PageSize) + 1
    /\ start = Len(remote)
    /\ Len(activity_ids) = Len(remote)
    /\ \A i \in 1..Len(remote) : activity_ids[i] = Str(remote[i].activityId)

\* C9 (as amended): in sync mode "all", with no type filter or one that
\* every remote activity passes, a listing over exactly k*100 activities
\* terminates (it returns or raises), and when it returns it has made
\* exactly k+1 calls (the last at offset k*100) and returns exactly k*100
\* identifiers, one per remote activity.
C9_Pagination ==
    /\ []((sync_type = "all" /\ WholePages /\ FilterPassesAll /\ Listed)
            => PagedThrough)
    /\ Listing ~> (Listed \/ pc = "raised")

\* C9 witness: two whole pages listed through a filter that all pass
C9_Witness ==
    /\ sync_type = "all"
    /\ Len(remote) = 2 * PageSize
    /\ ~FilterUnset(activity_types)
    /\ FilterPassesAll
    /\ Listed
    /\ listCalls = 3

\* C9 as stated: whatever the type filter
C9_Original == (sync_type = "all" /\ WholePages /\ Listed) => PagedThrough

\* C10 as stated: a run issues no download request for an id that an
\* earlier run downloaded and stored in the archive.
C10_NoRedownload == requested \cap stored = {}

\* the new-work set of the run has been computed and its batch scheduled
Scheduled == pc = "gather" \/ BatchOver

\* the run before this one ended normally with every one of its downloads
\* done
PriorRunClean == run > 1 /\ prior.ended = "done" /\ prior.failed = {}

\* C11 as stated: a run that follows a run which completed all its
\* downloads, over the same remote list, computes an empty new-work set and
\* issues no download request.
C11_SecondRunEmpty ==
    (PriorRunClean /\ Scheduled) => (DOMAIN task = {} /\ requested = {})

\* C12 as stated: an id whose task failed in a run has no archive entry
\* after the batch (no entry whose stem is the id), and the next run, when
\* its listing returns the id, has it in its new-work set.
C12_FailedIsRetried ==
    /\ BatchOver => Failed(task) \cap ListLocalIds(archive) = {}
    /\ (run > 1 /\ Scheduled) =>
            (prior.failed \cap Range(activity_ids)) \subseteq DOMAIN task

\* C13: the new-work set is the listed ids minus the stems (the text before
\* the first ".") of the non-hidden entries the run found in the archive
\* directory; and at every moment of the run every entry it found is still
\* there, so a re-scan yields a superset of the local ids found before.
C13_SetDifference ==
    /\ Scheduled =>
        DOMAIN task =
            {x \in Range(activity_ids) :
                ~\E f \in archive0 : Head(f) # "." /\ Stem(f) = x}
    /\ archive0 \subseteq archive
    /\ ListLocalIds(archive0) \subseteq ListLocalIds(archive)

\* C13 witness: the batch is over, the archive held a hidden entry and the
\* entry of a listed id, one listed id was new, and an entry was added
C13_Witness ==
    /\ BatchOver
    /\ \E f \in archive0 : Hidden(f)
    /\ Range(activity_ids) \cap ListLocalIds(archive0) # {}
    /\ Done(task) # {}
    /\ archive # archive0

\* the call of upload_activities is inside its loop, at item up.i
Uploading == up.pc \in {"post", "put"}

\* the items after item i
Later(i) == (i + 1)..up.n

\* C14: a transport failure of the upload POST of item i does not end the
\* call: the call never raises at item i, no type correction is issued for
\* it, and a later item is left unprocessed only while the loop has not
\* reached it or because an item between them raised; a failure of the
\* type-correction PUT of item i ends the call at item i by exception, with
\* no later item processed; a call that ends normally processed every item.
C14_UploadErrors ==
    /\ \A i \in 1..up.n :
        /\ up.res[i] = "post_failed" =>
            /\ ~(up.pc = "raised" /\ up.i = i)
            /\ \A j \in Later(i) : up.res[j] = "none" =>
                \/ Uploading /\ up.i <= j
                \/ up.pc = "raised" /\ i < up.i /\ up.i < j
        /\ up.res[i] = "put_failed" =>
            /\ up.pc = "raised"
            /\ up.i = i
            /\ \A j \in Later(i) : up.res[j] = "none"
    /\ up.pc \in {"close", "done"} =>
        \A i \in 1..up.n : up.res[i] \in {"post_failed", "no_success", "ok"}

\* C14 witness: the POST of the first item failed, the second was uploaded
\* and its type correction failed, and the third was never uploaded
C14_Witness ==
    /\ up.n = 3
    /\ up.pc = "raised"
    /\ up.res = <<"post_failed", "put_failed", "none">>

\* the type filter lets activity a through
PassesFilter(a) ==
    FilterUnset(activity_types) \/ a.typeKey \in Range(activity_types)

\* C15 as stated: in sync mode "all" the returned list holds the id of
\* every remote activity that passes the type filter, at whatever offset.
C15_FilteredListing ==
    (sync_type = "all" /\ Listed) =>
        \A i \in 1..Len(remote) :
            PassesFilter(remote[i]) =>
                Str(remote[i].activityId) \in Range(activity_ids)

\* the tasks that are opening or writing their file
AtFile(t) == {id \in DOMAIN t : t[id] \in {"opening", "writing"}}

\* the listing returned some id more than once
ListedTwice ==
    \E i, j \in 1..Len(activity_ids) :
        i # j /\ activity_ids[i] = activity_ids[j]

\* C16: one coroutine, and so one task, is created per id of the new-work
\* set, also when the listing returned an id more than once; and no two
\* tasks that are opening or writing a file have the same file path.
C16_OneTaskPerId ==
    /\ \A id \in DOMAIN scheduled : scheduled[id] = 1
    /\ DOMAIN task = DOMAIN scheduled
    /\ \A a, b \in AtFile(task) :
        a # b => FilePath(a, file_type) # FilePath(b, file_type)

\* C16 witness: the listing returned an id twice, that id is in the batch,
\* and two tasks are at their files at the same time
C16_Witness ==
    /\ pc = "gather"
    /\ ListedTwice
    /\ \E i, j \in 1..Len(activity_ids) :
        i # j /\ activity_ids[i] = activity_ids[j] /\ activity_ids[i] \in AtFile(task)
    /\ Cardinality(AtFile(task)) = 2

\* C17: while the batch runs, every task that has started has issued
\* exactly one download GET and a waiting task none; no step taken during
\* the batch invokes login or changes the authenticated flag or the
\* cookies; and a task that has failed stays failed (no retry in the run).
C17_SessionReadOnly ==
    /\ [](\A id \in DOMAIN task :
            gets[id] = IF task[id] = "pending" THEN 0 ELSE 1)
    /\ [][pc = "gather" =>
            /\ UNCHANGED <<is_login, cookies, lastLogin, fetch>>
            /\ \A id \in DOMAIN task :
                task[id] \in {"failed", "done"} =>
                    task'[id] = task[id] /\ gets'[id] = gets[id]]_vars

\* C17 witness: the batch returned with a failed task next to a done one,
\* the session as the listing left it
C17_Witness ==
    /\ pc = "rebuild"
    /\ is_login /\ cookies
    /\ lastLogin.result = "ok"
    /\ \E a, b \in DOMAIN task :
        /\ task[a] = "failed" /\ gets[a] = 1
        /\ task[b] = "done" /\ gets[b] = 1

\* C18 as stated: for gpx and tcx the archive after the batch is the
\* archive the run found plus the file {id}.{ext} of every id of the
\* new-work set whose download and write succeeded.
C18_ArchiveAfterRun ==
    (file_type # "fit" /\ BatchOver) =>
        archive = archive0 \cup {FilePath(id, file_type) : id \in Done(task)}

\* download_new_activities or upload_activities has terminated
JobEnded == RunEnded \/ up.pc \in {"done", "raised"}

\* C19 as stated: when the job has terminated, normally or by a fatal
\* error, the HTTP client has been closed, and it is not closed while a
\* task is in flight.
C19_ClosedAtEnd ==
    /\ JobEnded => closed
    /\ closed => InFlight(task) = {}

====
